---- MODULE Spec2Model ----
(***************************************************************************)
(* A state-machine model of the SnipLink URL shortener: the localStorage   *)
(* record store and rate-limit window (storage module), the URL helpers    *)
(* (urlShortener module), and the handlers of ShortenForm, UrlList and App *)
(* that drive them.                                                         *)
(*                                                                         *)
(* Strings that the code inspects character by character (short codes and  *)
(* aliases) are sequences of one-character strings.  A URL is a record of  *)
(* the components the WHATWG parser splits it into.  A timestamp is a      *)
(* number of milliseconds; the JavaScript null of expiresAt is Null.       *)
(***************************************************************************)
EXTENDS Integers, Sequences, FiniteSets, TLC

VARIABLES
    urls,     \* localStorage["sniplink_urls"]: the stored ShortenedUrl list
    rate,     \* localStorage["sniplink_rate_limit"].timestamps
    now,      \* Date.now()
    nextId,   \* number of ids crypto.randomUUID() has handed out
    form,     \* per caller: the React state of its ShortenForm
    calls,    \* per caller: the store call its tab is in the middle of
    last      \* history: the operation that produced this state, its outcome

vars == <<urls, rate, now, nextId, form, calls, last>>

(***************************************************************************)
(* Program constants                                                       *)
(***************************************************************************)
RATE_LIMIT_WINDOW == 60000
RATE_LIMIT_MAX == 10
gracePeriod == 604800000
HistoryCap == 1000
DefaultLength == 7
maxRetries == 5
Level1Length == 9
Level1Retries == 3
Level2Length == 11
Level2Retries == 2
MinAliasLen == 3
MaxAliasLen == 30
OneHour == 3600000
CreateDelay == 400

\* expiresAt: number | null
Null == -1

(***************************************************************************)
(* Bounds of the model                                                     *)
(***************************************************************************)
MaxRecords == 2      \* ids handed out in the store specifications
MaxClicks == 1       \* visits a run records (per record, or in all)
MaxAdmitted == 12    \* records a run of the rate-limit specifications creates
MaxFreeSlots == 2    \* free slots of a window whose end the clock moves on to
MaxTime == 12        \* clock range of the pure-function specification
MaxExtra == 2        \* click events beyond the history cap a record collects
MaxWrites == 2       \* setItem calls of one store call whose outcomes are drawn
MaxSlashes == 2      \* slashes typed at the end of a path
MaxOver == 1         \* characters an alias is longer than the longest allowed
MaxAhead == 2        \* milliseconds around one hour ahead of the clock

(***************************************************************************)
(* Characters and strings                                                  *)
(***************************************************************************)
BASE62_CHARS ==
    <<"a","b","c","d","e","f","g","h","i","j","k","l","m",
      "n","o","p","q","r","s","t","u","v","w","x","y","z",
      "A","B","C","D","E","F","G","H","I","J","K","L","M",
      "N","O","P","Q","R","S","T","U","V","W","X","Y","Z",
      "0","1","2","3","4","5","6","7","8","9">>

AliasChars == {BASE62_CHARS[i] : i \in 1..62} \cup {"_", "-"}

Rep(ch, n) == [i \in 1..n |-> ch]

\* String.prototype.trim on an alias: the inputs carry no outer white space
\* except the all-blank alias, which trims to the empty string.
Trim(s) == IF \A i \in 1..Len(s) : s[i] = " " THEN <<>> ELSE s

\* generateShortCode(length): array is the Uint8Array crypto.getRandomValues
\* filled, timingEntropy the integer part of (performance.now() * 1000) % 62.
generateShortCode(length, array, timingEntropy) ==
    [i \in 1..length |->
        BASE62_CHARS[(IF i = 1 THEN (array[i] + timingEntropy) % 62
                               ELSE array[i] % 62) + 1]]

\* an alias check that takes one character more
isValidAliasLonger(alias) ==
    /\ Len(alias) >= MinAliasLen
    /\ Len(alias) <= MaxAliasLen + 1
    /\ \A i \in 1..Len(alias) : alias[i] \in AliasChars

\* /^[a-zA-Z0-9_-]{3,30}$/.test(alias)
isValidAlias(alias) ==
    /\ Len(alias) >= MinAliasLen
    /\ Len(alias) <= MaxAliasLen
    /\ \A i \in 1..Len(alias) : alias[i] \in AliasChars

(***************************************************************************)
(* URLs.  A URL string is the record of its components:                    *)
(*   scheme  "http", "https", "ftp", "javascript", or "" when none is typed*)
(*   upper   TRUE when scheme and host are typed in upper case             *)
(*   host    the labels of the host name, split on "."                    *)
(*   port    the text after the host's ":" ("" when there is none)        *)
(*   path    the path split on "/": "/a/" is <<"a", "">>, "/" is <<"">>    *)
(*   query   the key/value pairs, each a pair of character codes          *)
(*   hash    the fragment ("" when there is none)                         *)
(* EmptyUrl is the empty string.                                           *)
(***************************************************************************)
MaxUrlLength == 2000
MaxLabelLength == 63
MaxLabels == 5

EmptyUrl == [scheme |-> "", upper |-> FALSE, host |-> <<>>, port |-> "",
             path |-> <<>>, query |-> <<>>, hash |-> ""]

RECURSIVE SumLen(_)
SumLen(strs) == IF strs = <<>> THEN 0 ELSE Len(Head(strs)) + 1 + SumLen(Tail(strs))

\* url.length: "scheme://", the labels and the dots between them, ":port",
\* "/" and each path segment, "?k=v&k=v" and "#hash"
UrlLength(u) ==
    (IF u.scheme = "" THEN 0 ELSE Len(u.scheme) + 3)
    + (IF u.host = <<>> THEN 0 ELSE SumLen(u.host) - 1)
    + (IF u.port = "" THEN 0 ELSE Len(u.port) + 1)
    + SumLen(u.path)
    + 4 * Len(u.query)
    + (IF u.hash = "" THEN 0 ELSE Len(u.hash) + 1)

\* new URL(url) throws: no host, or a port that is not a number
Parses(u) == u.host # <<>> /\ u.port \in {"", "80", "443", "8080"}

DefaultPort(scheme) ==
    CASE scheme = "http" -> "80"
      [] scheme = "https" -> "443"
      [] scheme = "ftp" -> "21"
      [] OTHER -> ""

\* new URL(url): the parser lower-cases scheme and host, drops the scheme's
\* default port and gives an absent path the value "/".
ParseUrl(u) ==
    [u EXCEPT !.upper = FALSE,
              !.port = IF u.port = DefaultPort(u.scheme) THEN "" ELSE u.port,
              !.path = IF u.path = <<>> THEN <<"">> ELSE u.path]

\* ensureProtocol: "https://" is put before a text that does not start with
\* http:// or https://; an ftp://host/... text then parses with host "ftp",
\* and "javascript:alert(1)" with host "javascript" and a port that is no number.
ensureProtocol(u) ==
    IF u = EmptyUrl THEN u
    ELSE IF u.scheme \in {"http", "https"} THEN u
    ELSE IF u.scheme = "" THEN [u EXCEPT !.scheme = "https"]
    ELSE IF u.scheme = "ftp"
         THEN [u EXCEPT !.scheme = "https", !.upper = FALSE, !.host = <<"ftp">>,
                        !.port = "", !.path = <<"">> \o u.host \o u.path]
    ELSE [u EXCEPT !.scheme = "https", !.upper = FALSE, !.host = <<u.scheme>>,
                   !.port = "alert(1)", !.path = <<>>]

suspiciousKeywords ==
    {"phishing", "malware", "virus", "hack", "crack", "keygen", "warez",
     "torrent-illegal"}

\* a label "xn--" followed by twenty or more letters and digits
SuspiciousPunycode == "xn--abcdefghijklmnopqrst"

NumericLabels == {"0", "1", "8", "127", "168", "192"}

Elems(seq) == {seq[i] : i \in 1..Len(seq)}

containsSuspiciousPatterns(u) ==
    \/ (Elems(u.host) \cup Elems(u.path) \cup {u.hash}) \cap suspiciousKeywords # {}
    \/ (Parses(u) /\ Len(u.host) > MaxLabels)
    \/ (Parses(u) /\ SuspiciousPunycode \in Elems(u.host))

\* a URL check that asks for no dot in the host name
isValidUrlAnyHost(u) ==
    IF UrlLength(u) > MaxUrlLength THEN FALSE
    ELSE IF ~Parses(u) THEN FALSE
    ELSE ParseUrl(u).scheme \in {"http", "https", "ftp"}
         /\ ~containsSuspiciousPatterns(u)

isValidUrl(u) ==
    IF UrlLength(u) > MaxUrlLength THEN FALSE
    ELSE IF ~Parses(u) THEN FALSE
    ELSE LET parsed == ParseUrl(u) IN
         IF parsed.scheme \notin {"http", "https", "ftp"} THEN FALSE
         ELSE IF Len(parsed.host) < 2 /\ parsed.host # <<"localhost">> THEN FALSE
         ELSE IF containsSuspiciousPatterns(u) THEN FALSE
         ELSE IF /\ Len(parsed.host) = 4
                 /\ Elems(parsed.host) \subseteq NumericLabels
                 /\ parsed.host[1] # "127"
                 /\ ~(parsed.host[1] = "192" /\ parsed.host[2] = "168")
              THEN FALSE
         ELSE IF \E i \in 1..Len(parsed.host) :
                    Len(parsed.host[i]) = 0 \/ Len(parsed.host[i]) > MaxLabelLength
              THEN FALSE
         ELSE TRUE

\* [...params.entries()].sort(): insertion of each pair into the sorted rest
PairLeq(p, q) == p[1] < q[1] \/ (p[1] = q[1] /\ p[2] <= q[2])

RECURSIVE Insert(_, _)
Insert(p, sorted) ==
    IF sorted = <<>> THEN <<p>>
    ELSE IF PairLeq(p, Head(sorted)) THEN <<p>> \o sorted
    ELSE <<Head(sorted)>> \o Insert(p, Tail(sorted))

RECURSIVE SortPairs(_)
SortPairs(q) == IF q = <<>> THEN <<>> ELSE Insert(Head(q), SortPairs(Tail(q)))

normalizeUrl(u) ==
    IF ~Parses(u) THEN [u EXCEPT !.upper = FALSE]
    ELSE LET parsed == ParseUrl(u)
             path == IF Len(parsed.path) > 1 /\ parsed.path[Len(parsed.path)] = ""
                     THEN SubSeq(parsed.path, 1, Len(parsed.path) - 1)
                     ELSE parsed.path
         IN [parsed EXCEPT !.hash = "", !.query = SortPairs(parsed.query),
                           !.path = path]

\* getBaseUrl(): the origin the app is served from
BaseUrl == [scheme |-> "https", upper |-> FALSE, host |-> <<"sniplink", "app">>,
            port |-> "", path |-> <<>>, query |-> <<>>, hash |-> ""]

Origin(u) == LET parsed == ParseUrl(u) IN <<parsed.scheme, parsed.host, parsed.port>>

isSelfReferencing(u) == Parses(u) /\ Origin(u) = Origin(BaseUrl)


(***************************************************************************)
(* The record store (localStorage key sniplink_urls)                       *)
(***************************************************************************)
\* an optional field: Undefined, or Some(value)
Undefined == <<>>
Some(x) == <<x>>

\* loadUrls: the stored list, with the migration of records saved without a
\* normalizedUrl (the lower-cased originalUrl stands in)
loadUrls(stored) ==
    [i \in 1..Len(stored) |->
        IF stored[i].normalizedUrl = EmptyUrl
        THEN [stored[i] EXCEPT !.normalizedUrl = [stored[i].originalUrl EXCEPT !.upper = FALSE]]
        ELSE stored[i]]

\* u.expiresAt is falsy: null, or the number 0
NoExpiry(expiresAt) == expiresAt = Null \/ expiresAt = 0

\* a sweep that still keeps a record expired for exactly the grace period
KeptByCleanupInclusive(u, t) ==
    IF NoExpiry(u.expiresAt) THEN TRUE
    ELSE u.expiresAt > t \/ t - u.expiresAt <= gracePeriod

\* the records cleanupExpiredUrls keeps: no expiry, not yet expired, or
\* expired for less than the grace period
KeptByCleanup(u, t) ==
    IF NoExpiry(u.expiresAt) THEN TRUE
    ELSE u.expiresAt > t \/ t - u.expiresAt < gracePeriod

\* a trim that keeps the oldest 1000 events
TrimHistoryOldest(u) ==
    IF Len(u.clickHistory) > HistoryCap
    THEN [u EXCEPT !.clickHistory = SubSeq(u.clickHistory, 1, HistoryCap)]
    ELSE u

\* clickHistory.slice(-1000) of a record that holds more than 1000 events
TrimHistory(u) ==
    IF Len(u.clickHistory) > HistoryCap
    THEN [u EXCEPT !.clickHistory =
             SubSeq(u.clickHistory, Len(u.clickHistory) - HistoryCap + 1,
                    Len(u.clickHistory))]
    ELSE u

\* a sweep that counts a history of exactly 1000 events as trimmed
CleanupResultCountsAtCap(stored, t) ==
    LET all == loadUrls(stored)
        active == SelectSeq(all, LAMBDA u : KeptByCleanup(u, t))
        trimmed == [i \in 1..Len(active) |-> TrimHistory(active[i])]
        trimmedCount == Cardinality({i \in 1..Len(active) :
                                        Len(active[i].clickHistory) >= HistoryCap})
    IN [removed |-> Len(all) - Len(active), trimmed |-> trimmedCount, urls |-> trimmed]

\* cleanupExpiredUrls without its write: the counts and the list it returns
CleanupResult(stored, t) ==
    LET all == loadUrls(stored)
        active == SelectSeq(all, LAMBDA u : KeptByCleanup(u, t))
        trimmed == [i \in 1..Len(active) |-> TrimHistory(active[i])]
        trimmedCount == Cardinality({i \in 1..Len(active) :
                                        Len(active[i].clickHistory) > HistoryCap})
    IN [removed |-> Len(all) - Len(active), trimmed |-> trimmedCount, urls |-> trimmed]

\* the outcome of one localStorage.setItem: "ok"; "quota" (it throws
\* QuotaExceededError); "error" (it throws anything else).  A run of saveUrls
\* draws the outcomes of its successive setItem calls from a sequence, and
\* calls beyond the sequence succeed.
WritesOk == <<"ok">>

\* saveUrls(list) run to its end: the stored list after the call, the lists
\* handed to setItem in order, and the number of sweeps run.  A write that
\* fails is only logged; on QuotaExceededError the catch block runs
\* cleanupExpiredUrls, which reads the stored list again and calls saveUrls on
\* its own list when it removed or trimmed something.
RECURSIVE SaveRun(_, _, _, _)
SaveRun(stored, list, writes, t) ==
    LET write == IF writes = <<>> THEN "ok" ELSE Head(writes)
        rest == IF writes = <<>> THEN <<>> ELSE Tail(writes)
        cleaned == CleanupResult(stored, t)
        inner == SaveRun(stored, cleaned.urls, rest, t)
    IN IF write = "ok"
         THEN [stored |-> list, attempts |-> <<list>>, sweeps |-> 0]
       ELSE IF write = "quota"
         THEN IF cleaned.removed > 0 \/ cleaned.trimmed > 0
              THEN [stored |-> inner.stored, attempts |-> <<list>> \o inner.attempts,
                    sweeps |-> 1 + inner.sweeps]
              ELSE [stored |-> stored, attempts |-> <<list>>, sweeps |-> 1]
       ELSE [stored |-> stored, attempts |-> <<list>>, sweeps |-> 0]

\* saveUrls(list): the stored list after the call
saveUrls(stored, list, writes, t) == SaveRun(stored, list, writes, t).stored

\* addUrl: urls.unshift(url) and save; the returned list is fst, the stored snd
addUrlList(stored, url) == <<url>> \o loadUrls(stored)

addUrl(stored, url, writes, t) == saveUrls(stored, addUrlList(stored, url), writes, t)

\* a delete that drops the newest record when the id is not stored
deleteUrlOrNewest(stored, id, writes, t) ==
    saveUrls(stored,
             IF \E u \in Elems(loadUrls(stored)) : u.id = id
             THEN SelectSeq(loadUrls(stored), LAMBDA u : u.id # id)
             ELSE IF loadUrls(stored) = <<>> THEN <<>> ELSE Tail(loadUrls(stored)),
             writes, t)

deleteUrl(stored, id, writes, t) ==
    saveUrls(stored, SelectSeq(loadUrls(stored), LAMBDA u : u.id # id), writes, t)

bulkDeleteUrls(stored, ids, writes, t) ==
    saveUrls(stored, SelectSeq(loadUrls(stored), LAMBDA u : u.id \notin ids), writes, t)

\* a visit that counts the click and records no event
incrementClicksListNoEvent(stored, id, t) ==
    LET all == loadUrls(stored) IN
    [i \in 1..Len(all) |->
        IF all[i].id = id THEN [all[i] EXCEPT !.clicks = @ + 1] ELSE all[i]]

\* a visit that also refreshes the creation time of the record visited
incrementClicksListTouching(stored, id, t) ==
    LET all == loadUrls(stored) IN
    [i \in 1..Len(all) |->
        IF all[i].id = id
        THEN [all[i] EXCEPT !.clicks = @ + 1, !.clickHistory = Append(@, t),
                            !.createdAt = t]
        ELSE all[i]]

\* incrementClicks: the click event is its timestamp (the referrer, device,
\* time zone and user agent it carries are opaque to the store)
incrementClicksList(stored, id, t) ==
    LET all == loadUrls(stored) IN
    [i \in 1..Len(all) |->
        IF all[i].id = id
        THEN [all[i] EXCEPT !.clicks = @ + 1, !.clickHistory = Append(@, t)]
        ELSE all[i]]

\* a visit counted on the newest stored record, whichever id was visited
incrementClicksNewest(stored, id, writes, t) ==
    saveUrls(stored,
             [i \in 1..Len(loadUrls(stored)) |->
                 IF i = 1
                 THEN [loadUrls(stored)[i] EXCEPT !.clicks = @ + 1,
                                                  !.clickHistory = Append(@, t)]
                 ELSE loadUrls(stored)[i]],
             writes, t)

incrementClicks(stored, id, writes, t) ==
    saveUrls(stored, incrementClicksList(stored, id, t), writes, t)

cleanupExpiredUrls(stored, writes, t) ==
    LET r == CleanupResult(stored, t) IN
    IF r.removed > 0 \/ r.trimmed > 0 THEN saveUrls(stored, r.urls, writes, t)
    ELSE stored

\* what a handler gets back from a store call and what the call did to get
\* there: the list the call returns, the lists it handed to setItem, and the
\* sweeps its saves ran
StoreCall(returned, run) ==
    [returned |-> returned, attempts |-> run.attempts, sweeps |-> run.sweeps]

\* isShortCodeUnique with its check left out
isShortCodeUniqueUnchecked(stored, code) == TRUE

isShortCodeUnique(stored, code) ==
    ~\E i \in 1..Len(loadUrls(stored)) : loadUrls(stored)[i].shortCode = code

\* findDuplicateUrl: the first record with that normalizedUrl, or null.  The
\* form keeps a record (duplicate, result) as its id; NoRecord is its null.
NoRecord == 0
NullRecord == [id |-> NoRecord]

\* a lookup that finds no duplicate
findDuplicateUrlNone(stored, normalized) == NullRecord


findDuplicateUrl(stored, normalized) ==
    LET all == loadUrls(stored)
        hits == {i \in 1..Len(all) : all[i].normalizedUrl = normalized}
    IN IF hits = {} THEN NullRecord
       ELSE all[CHOOSE i \in hits : \A j \in hits : i <= j]

(***************************************************************************)
(* generateUniqueShortCode.  random[k] is the byte that the k-th call of   *)
(* the generator draws for every position of its code; the result is the   *)
(* code returned (NoCode for null) and the lengths the generator was       *)
(* called with, in order.                                                  *)
(***************************************************************************)
NoCode == <<>>

\* one for-loop of generateUniqueShortCode: up to `tries` calls at `length`,
\* the k-th call of the whole run being call number `done + 1`
RECURSIVE TryLevel(_, _, _, _, _)
TryLevel(stored, random, length, tries, done) ==
    IF tries = 0 THEN [code |-> NoCode, calls |-> <<>>]
    ELSE LET code == generateShortCode(length, Rep(random[done + 1], length), 0)
         IN IF isShortCodeUnique(stored, code)
            THEN [code |-> code, calls |-> <<length>>]
            ELSE LET rest == TryLevel(stored, random, length, tries - 1, done + 1)
                 IN [code |-> rest.code, calls |-> <<length>> \o rest.calls]

\* generateUniqueShortCode without its 9-character loop
generateUniqueShortCodeNoLevel1(stored, random) ==
    LET first == TryLevel(stored, random, DefaultLength, maxRetries, 0)
    IN IF first.code # NoCode THEN first
       ELSE LET third == TryLevel(stored, random, Level2Length, Level2Retries,
                                  maxRetries)
            IN [code |-> third.code, calls |-> first.calls \o third.calls]

generateUniqueShortCode(stored, random) ==
    LET first == TryLevel(stored, random, DefaultLength, maxRetries, 0)
    IN IF first.code # NoCode THEN first
       ELSE LET second == TryLevel(stored, random, Level1Length, Level1Retries,
                                   maxRetries)
            IN IF second.code # NoCode
               THEN [code |-> second.code, calls |-> first.calls \o second.calls]
               ELSE LET third == TryLevel(stored, random, Level2Length, Level2Retries,
                                          maxRetries + Level1Retries)
                    IN [code |-> third.code,
                        calls |-> first.calls \o second.calls \o third.calls]

(***************************************************************************)
(* The rate limiter (localStorage key sniplink_rate_limit)                 *)
(***************************************************************************)
InWindow(timestamp, t) == t - timestamp < RATE_LIMIT_WINDOW

Recent(timestamps, t) == SelectSeq(timestamps, LAMBDA x : InWindow(x, t))

\* Math.min(...recent)
Oldest(recent) == CHOOSE x \in Elems(recent) : \A y \in Elems(recent) : x <= y

\* Math.ceil(ms / 1000), of a positive number of milliseconds
CeilSeconds(ms) == (ms + 999) \div 1000

Max(a, b) == IF a >= b THEN a ELSE b

\* a limiter that admits while the window holds RATE_LIMIT_MAX timestamps
checkRateLimitOffByOne(timestamps, t) ==
    LET recent == Recent(timestamps, t)
        allowed == Len(recent) <= RATE_LIMIT_MAX
    IN [allowed |-> allowed,
        remaining |-> Max(0, RATE_LIMIT_MAX - Len(recent)),
        resetIn |-> IF Len(recent) > 0
                    THEN CeilSeconds(RATE_LIMIT_WINDOW - (t - Oldest(recent)))
                    ELSE 0,
        nextAvailable |-> IF Len(recent) > 0 /\ ~allowed /\ Len(recent) = RATE_LIMIT_MAX
                          THEN Oldest(recent) + RATE_LIMIT_WINDOW
                          ELSE Null]

\* checkRateLimit: nextAvailable is Null when the code leaves it undefined
checkRateLimit(timestamps, t) ==
    LET recent == Recent(timestamps, t)
        allowed == Len(recent) < RATE_LIMIT_MAX
    IN [allowed |-> allowed,
        remaining |-> Max(0, RATE_LIMIT_MAX - Len(recent)),
        resetIn |-> IF Len(recent) > 0
                    THEN CeilSeconds(RATE_LIMIT_WINDOW - (t - Oldest(recent)))
                    ELSE 0,
        nextAvailable |-> IF Len(recent) > 0 /\ ~allowed /\ Len(recent) = RATE_LIMIT_MAX
                          THEN Oldest(recent) + RATE_LIMIT_WINDOW
                          ELSE Null]

recordRateLimitHit(timestamps, t) == Append(Recent(timestamps, t), t)

\* a check that also reports a record with exactly one hour left
isExpiringSoonInclusive(expiresAt, t) ==
    IF NoExpiry(expiresAt) THEN FALSE
    ELSE expiresAt > t /\ expiresAt - t <= OneHour

\* isExpiringSoon(expiresAt)
isExpiringSoon(expiresAt, t) ==
    IF NoExpiry(expiresAt) THEN FALSE
    ELSE expiresAt > t /\ expiresAt - t < OneHour

\* an expiry check that reports every record live
isExpiredNever(expiresAt, t) == FALSE

\* isExpired(expiresAt)
isExpired(expiresAt, t) ==
    IF NoExpiry(expiresAt) THEN FALSE ELSE expiresAt < t

\* getExpirationTime().  The clock of the model starts near 0, not near the
\* 1.7 * 10^12 of a real Date.now(): TLC's integers are 32 bits wide,
\* which is also why the 30 days are written as a product (no input uses them).
getExpirationTime(expiration, t) ==
    CASE expiration = "1h" -> t + OneHour
      [] expiration = "24h" -> t + 86400000
      [] expiration = "7d" -> t + 604800000
      [] expiration = "30d" -> t + 30 * 86400000
      [] OTHER -> Null


(***************************************************************************)
(* ShortenForm: the React state of one caller's form, and its handlers     *)
(***************************************************************************)
NoPending == [due |-> Null]

\* a tab that is in no store call
NoCall == [op |-> "none"]

\* the state useState gives a freshly mounted form
FreshForm == [url |-> EmptyUrl, error |-> "", duplicate |-> NoRecord,
              isCreating |-> FALSE, result |-> NoRecord, pending |-> NoPending]

\* the form is on screen (the result card replaces it) and its submit button
\* is enabled
CanSubmit(c) == form[c].result = NoRecord /\ ~form[c].isCreating

\* handleUrlChange(value)
HandleUrlChange(c, value) ==
    /\ form[c].result = NoRecord
    /\ form' = [form EXCEPT ![c].url = value, ![c].error = "",
                            ![c].duplicate = NoRecord]
    /\ last' = [op |-> "urlChange", c |-> c]
    /\ UNCHANGED <<urls, rate, now, nextId, calls>>

\* handleSubmit looking for the duplicate before it consults the rate limiter
SubmitDecisionDuplicateFirst(c, customAlias, useCustomAlias, expiration, password, random) ==
    LET rateLimit == checkRateLimit(rate, now)
        trimmedUrl == form[c].url
        finalUrl == ensureProtocol(trimmedUrl)
        normalized == normalizeUrl(finalUrl)
        existingUrl == findDuplicateUrl(urls, normalized)
        alias == Trim(customAlias)
        aliasAsked == useCustomAlias /\ alias # <<>>
        generated == generateUniqueShortCode(urls, random)
        closure == [finalUrl |-> finalUrl, normalized |-> normalized,
                    useCustomAlias |-> useCustomAlias, customAlias |-> customAlias,
                    expiration |-> expiration, password |-> password,
                    duplicate |-> form[c].duplicate, due |-> now + CreateDelay]
    IN IF existingUrl # NullRecord /\ form[c].duplicate = NoRecord
         THEN [out |-> "duplicate", calls |-> <<>>, existing |-> existingUrl.id]
       ELSE IF ~rateLimit.allowed
         THEN [out |-> "rateLimited", calls |-> <<>>]
       ELSE IF trimmedUrl = EmptyUrl
         THEN [out |-> "emptyUrl", calls |-> <<>>]
       ELSE IF ~isValidUrl(finalUrl)
         THEN [out |-> "invalidUrl", calls |-> <<>>]
       ELSE IF isSelfReferencing(finalUrl)
         THEN [out |-> "selfReference", calls |-> <<>>]
       ELSE IF existingUrl # NullRecord /\ form[c].duplicate = NoRecord
         THEN [out |-> "duplicate", calls |-> <<>>, existing |-> existingUrl.id]
       ELSE IF aliasAsked /\ ~isValidAlias(alias)
         THEN [out |-> "invalidAlias", calls |-> <<>>]
       ELSE IF aliasAsked /\ ~isShortCodeUnique(urls, alias)
         THEN [out |-> "aliasTaken", calls |-> <<>>]
       ELSE IF aliasAsked
         THEN [out |-> "pending", calls |-> <<>>,
               closure |-> closure @@ [shortCode |-> alias]]
       ELSE IF generated.code = NoCode
         THEN [out |-> "generationFailed", calls |-> generated.calls]
       ELSE [out |-> "pending", calls |-> generated.calls,
             closure |-> closure @@ [shortCode |-> generated.code]]

\* what handleSubmit decides before its timer is set: the outcome and, for
\* "pending", the values its timer callback closes over.  aliasAsked is the
\* guard useCustomAlias && customAlias.trim().
SubmitDecision(c, customAlias, useCustomAlias, expiration, password, random) ==
    LET rateLimit == checkRateLimit(rate, now)
        trimmedUrl == form[c].url
        finalUrl == ensureProtocol(trimmedUrl)
        normalized == normalizeUrl(finalUrl)
        existingUrl == findDuplicateUrl(urls, normalized)
        alias == Trim(customAlias)
        aliasAsked == useCustomAlias /\ alias # <<>>
        generated == generateUniqueShortCode(urls, random)
        closure == [finalUrl |-> finalUrl, normalized |-> normalized,
                    useCustomAlias |-> useCustomAlias, customAlias |-> customAlias,
                    expiration |-> expiration, password |-> password,
                    duplicate |-> form[c].duplicate, due |-> now + CreateDelay]
    IN IF ~rateLimit.allowed
         THEN [out |-> "rateLimited", calls |-> <<>>]
       ELSE IF trimmedUrl = EmptyUrl
         THEN [out |-> "emptyUrl", calls |-> <<>>]
       ELSE IF ~isValidUrl(finalUrl)
         THEN [out |-> "invalidUrl", calls |-> <<>>]
       ELSE IF isSelfReferencing(finalUrl)
         THEN [out |-> "selfReference", calls |-> <<>>]
       ELSE IF existingUrl # NullRecord /\ form[c].duplicate = NoRecord
         THEN [out |-> "duplicate", calls |-> <<>>, existing |-> existingUrl.id]
       ELSE IF aliasAsked /\ ~isValidAlias(alias)
         THEN [out |-> "invalidAlias", calls |-> <<>>]
       ELSE IF aliasAsked /\ ~isShortCodeUnique(urls, alias)
         THEN [out |-> "aliasTaken", calls |-> <<>>]
       ELSE IF aliasAsked
         THEN [out |-> "pending", calls |-> <<>>,
               closure |-> closure @@ [shortCode |-> alias]]
       ELSE IF generated.code = NoCode
         THEN [out |-> "generationFailed", calls |-> generated.calls]
       ELSE [out |-> "pending", calls |-> generated.calls,
             closure |-> closure @@ [shortCode |-> generated.code]]

\* handleSubmit recording a rate-limit hit for every request it is asked
HandleSubmitRecording(c, customAlias, useCustomAlias, expiration, password, random) ==
    /\ CanSubmit(c)
    /\ LET d == SubmitDecision(c, customAlias, useCustomAlias, expiration,
                               password, random)
       IN /\ form' = [form EXCEPT
                 ![c].error = IF d.out \in {"pending", "duplicate"} THEN "" ELSE d.out,
                 ![c].duplicate = IF d.out = "duplicate" THEN d.existing ELSE NoRecord,
                 ![c].isCreating = (d.out = "pending"),
                 ![c].pending = IF d.out = "pending" THEN d.closure ELSE NoPending]
          /\ last' = [op |-> "submit", c |-> c, out |-> d.out, calls |-> d.calls,
                      random |-> random, alias |-> Trim(customAlias),
                      useCustomAlias |-> useCustomAlias,
                      normalized |-> normalizeUrl(ensureProtocol(form[c].url)),
                      hadDuplicate |-> form[c].duplicate # NoRecord,
                      check |-> checkRateLimit(rate, now)]
    /\ rate' = recordRateLimitHit(rate, now)
    /\ UNCHANGED <<urls, now, nextId, calls>>

\* handleSubmit, up to setTimeout.  last records what was asked and what the
\* form knew when it was asked.
HandleSubmit(c, customAlias, useCustomAlias, expiration, password, random) ==
    /\ CanSubmit(c)
    /\ LET d == SubmitDecision(c, customAlias, useCustomAlias, expiration,
                               password, random)
       IN /\ form' = [form EXCEPT
                 ![c].error = IF d.out \in {"pending", "duplicate"} THEN "" ELSE d.out,
                 ![c].duplicate = IF d.out = "duplicate" THEN d.existing ELSE NoRecord,
                 ![c].isCreating = (d.out = "pending"),
                 ![c].pending = IF d.out = "pending" THEN d.closure ELSE NoPending]
          /\ last' = [op |-> "submit", c |-> c, out |-> d.out, calls |-> d.calls,
                      random |-> random, alias |-> Trim(customAlias),
                      useCustomAlias |-> useCustomAlias,
                      normalized |-> normalizeUrl(ensureProtocol(form[c].url)),
                      hadDuplicate |-> form[c].duplicate # NoRecord,
                      check |-> checkRateLimit(rate, now)]
    /\ UNCHANGED <<urls, rate, now, nextId, calls>>

\* a create that stores no customAlias
NewUrlNoAlias(closure, id, t) ==
    [id |-> id,
     originalUrl |-> closure.finalUrl,
     normalizedUrl |-> closure.normalized,
     shortCode |-> closure.shortCode,
     customAlias |-> Undefined,
     createdAt |-> t,
     expiresAt |-> getExpirationTime(closure.expiration, t),
     clicks |-> 0,
     clickHistory |-> <<>>,
     password |-> closure.password]

\* the record the timer callback of handleSubmit builds
NewUrl(closure, id, t) ==
    [id |-> id,
     originalUrl |-> closure.finalUrl,
     normalizedUrl |-> closure.normalized,
     shortCode |-> closure.shortCode,
     customAlias |-> IF closure.useCustomAlias THEN Some(Trim(closure.customAlias))
                     ELSE Undefined,
     createdAt |-> t,
     expiresAt |-> getExpirationTime(closure.expiration, t),
     clicks |-> 0,
     clickHistory |-> <<>>,
     password |-> closure.password]

\* the callback of setTimeout(..., 400) in handleSubmit
CreateTimer(c, writes) ==
    /\ form[c].pending # NoPending
    /\ now >= form[c].pending.due
    /\ LET newUrl == NewUrl(form[c].pending, nextId + 1, now)
       IN /\ urls' = addUrl(urls, newUrl, writes, now)
          /\ rate' = recordRateLimitHit(rate, now)
          /\ form' = [form EXCEPT ![c].result = newUrl.id, ![c].duplicate = NoRecord,
                                  ![c].isCreating = FALSE, ![c].pending = NoPending]
          /\ last' = [op |-> "create", c |-> c, url |-> newUrl,
                      request |-> form[c].pending]
                      @@ StoreCall(addUrlList(urls, newUrl),
                                   SaveRun(urls, addUrlList(urls, newUrl), writes, now))
    /\ nextId' = nextId + 1
    /\ UNCHANGED <<now, calls>>

\* handleUseDuplicate
HandleUseDuplicate(c) ==
    /\ form[c].result = NoRecord
    /\ form[c].duplicate # NoRecord
    /\ form' = [form EXCEPT ![c].result = form[c].duplicate,
                            ![c].duplicate = NoRecord]
    /\ last' = [op |-> "useDuplicate", c |-> c]
    /\ UNCHANGED <<urls, rate, now, nextId, calls>>

\* handleReset: the button of the result card
HandleReset(c) ==
    /\ form[c].result # NoRecord
    /\ form' = [form EXCEPT ![c].url = EmptyUrl, ![c].error = "",
                            ![c].result = NoRecord, ![c].duplicate = NoRecord]
    /\ last' = [op |-> "reset", c |-> c]
    /\ UNCHANGED <<urls, rate, now, nextId, calls>>

(***************************************************************************)
(* App and UrlList handlers                                                *)
(***************************************************************************)
\* handleHashRoute for the hash #/s/<shortCode>
HandleHashRoute(shortCode, writes) ==
    LET allUrls == loadUrls(urls)
        hits == {i \in 1..Len(allUrls) :
                    \/ allUrls[i].shortCode = shortCode
                    \/ allUrls[i].customAlias = Some(shortCode)}
        found == allUrls[CHOOSE i \in hits : \A j \in hits : i <= j]
    IN /\ shortCode # <<>>
       /\ IF hits = {}
          THEN /\ last' = [op |-> "visit", out |-> "not-found", code |-> shortCode]
               /\ UNCHANGED urls
          ELSE IF isExpired(found.expiresAt, now)
          THEN /\ last' = [op |-> "visit", out |-> "expired", code |-> shortCode,
                           id |-> found.id]
               /\ UNCHANGED urls
          ELSE /\ urls' = incrementClicks(urls, found.id, writes, now)
               /\ last' = [op |-> "visit", out |-> "redirecting", code |-> shortCode,
                           id |-> found.id]
                           @@ StoreCall(incrementClicksList(urls, found.id, now),
                                        SaveRun(urls, incrementClicksList(urls, found.id, now),
                                                writes, now))
       /\ UNCHANGED <<rate, now, nextId, form, calls>>

\* handleClick(url) of UrlList, for the listed record with that id
HandleClick(id, writes) ==
    LET listed == CHOOSE u \in Elems(urls) : u.id = id
    IN /\ id \in {u.id : u \in Elems(urls)}
       /\ IF isExpired(listed.expiresAt, now)
          THEN /\ last' = [op |-> "click", out |-> "expired", id |-> id]
               /\ UNCHANGED urls
          ELSE /\ urls' = incrementClicks(urls, id, writes, now)
               /\ last' = [op |-> "click", out |-> "opened", id |-> id]
                           @@ StoreCall(incrementClicksList(urls, id, now),
                                        SaveRun(urls, incrementClicksList(urls, id, now),
                                                writes, now))
       /\ UNCHANGED <<rate, now, nextId, form, calls>>

\* handleDelete(id)
HandleDelete(id, writes) ==
    /\ urls' = deleteUrl(urls, id, writes, now)
    /\ last' = [op |-> "delete", ids |-> {id}]
                @@ StoreCall(SelectSeq(loadUrls(urls), LAMBDA u : u.id # id),
                             SaveRun(urls, SelectSeq(loadUrls(urls), LAMBDA u : u.id # id),
                                     writes, now))
    /\ UNCHANGED <<rate, now, nextId, form, calls>>

\* handleBulkDelete with selectedIds = ids
HandleBulkDelete(ids, writes) ==
    /\ ids # {}
    /\ urls' = bulkDeleteUrls(urls, ids, writes, now)
    /\ last' = [op |-> "bulkDelete", ids |-> ids]
                @@ StoreCall(SelectSeq(loadUrls(urls), LAMBDA u : u.id \notin ids),
                             SaveRun(urls, SelectSeq(loadUrls(urls), LAMBDA u : u.id \notin ids),
                                     writes, now))
    /\ UNCHANGED <<rate, now, nextId, form, calls>>

\* handleCleanupExpired, and the auto-cleanup timer of App
HandleCleanupExpired(writes) ==
    /\ urls' = cleanupExpiredUrls(urls, writes, now)
    /\ LET r == CleanupResult(urls, now)
           saved == r.removed > 0 \/ r.trimmed > 0
           run == SaveRun(urls, r.urls, writes, now)
       IN last' = [op |-> "cleanup", removed |-> r.removed, trimmed |-> r.trimmed,
                   returned |-> r.urls,
                   attempts |-> IF saved THEN run.attempts ELSE <<>>,
                   sweeps |-> IF saved THEN run.sweeps ELSE 0]
    /\ UNCHANGED <<rate, now, nextId, form, calls>>

\* A store call of one tab up to the point where it has read the stored list
\* (loadUrls) and computed the list it is about to write, and the write
\* itself (saveUrls).  Within a tab the two halves run back to back; tabs in
\* different processes share localStorage with no lock, so the calls of
\* another tab may fall between them.
\*
\* handleHashRoute of tab c up to the loadUrls().map of incrementClicks
BeginVisit(c, shortCode) ==
    LET allUrls == loadUrls(urls)
        hits == {i \in 1..Len(allUrls) :
                    \/ allUrls[i].shortCode = shortCode
                    \/ allUrls[i].customAlias = Some(shortCode)}
        found == allUrls[CHOOSE i \in hits : \A j \in hits : i <= j]
    IN /\ calls[c] = NoCall
       /\ shortCode # <<>>
       /\ hits # {}
       /\ ~isExpired(found.expiresAt, now)
       /\ calls' = [calls EXCEPT ![c] =
                       [op |-> "visit", id |-> found.id,
                        list |-> incrementClicksList(urls, found.id, now)]]
       /\ last' = [op |-> "load", c |-> c, call |-> "visit", id |-> found.id]
       /\ UNCHANGED <<urls, rate, now, nextId, form>>

\* cleanupExpiredUrls of tab c up to its saveUrls(trimmed); a sweep that
\* removed and trimmed nothing ends there
BeginCleanup(c) ==
    LET r == CleanupResult(urls, now)
    IN /\ calls[c] = NoCall
       /\ IF r.removed > 0 \/ r.trimmed > 0
          THEN /\ calls' = [calls EXCEPT ![c] =
                               [op |-> "cleanup", id |-> NoRecord, list |-> r.urls]]
               /\ last' = [op |-> "load", c |-> c, call |-> "cleanup", id |-> NoRecord]
          ELSE /\ last' = [op |-> "cleanup", removed |-> 0, trimmed |-> 0,
                           returned |-> r.urls, attempts |-> <<>>, sweeps |-> 0]
               /\ UNCHANGED calls
       /\ UNCHANGED <<urls, rate, now, nextId, form>>

\* the saveUrls that ends the store call tab c is in
EndCall(c) ==
    /\ calls[c] # NoCall
    /\ urls' = saveUrls(urls, calls[c].list, WritesOk, now)
    /\ calls' = [calls EXCEPT ![c] = NoCall]
    /\ last' = [op |-> "save", c |-> c, call |-> calls[c].op, id |-> calls[c].id]
    /\ UNCHANGED <<rate, now, nextId, form>>

\* the clock moves on to the instant t
Tick(t) ==
    /\ t > now
    /\ now' = t
    /\ last' = [op |-> "tick"]
    /\ UNCHANGED <<urls, rate, nextId, form, calls>>


(***************************************************************************)
(* Inputs the specifications draw from                                     *)
(***************************************************************************)
Callers == {1, 2}

\* "HTTP://EXAMPLE.COM:80/a/", "http://example.com/a" (the same resource),
\* "example.org" (no scheme typed) and "javascript:alert(1)"
UrlUpper == [scheme |-> "http", upper |-> TRUE, host |-> <<"example", "com">>,
             port |-> "80", path |-> <<"a", "">>, query |-> <<>>, hash |-> ""]
UrlPlain == [scheme |-> "http", upper |-> FALSE, host |-> <<"example", "com">>,
             port |-> "", path |-> <<"a">>, query |-> <<>>, hash |-> ""]
UrlOrg == [scheme |-> "", upper |-> FALSE, host |-> <<"example", "org">>,
           port |-> "", path |-> <<>>, query |-> <<>>, hash |-> ""]
UrlScript == [scheme |-> "javascript", upper |-> FALSE, host |-> <<>>,
              port |-> "", path |-> <<"alert(1)">>, query |-> <<>>, hash |-> ""]


\* aliases: "aaaaaaa" (also a code the generator can return), "x-1", "ab"
\* (too short), "a!c" (a character outside the class) and " " (blank)
AliasGen == Rep("a", DefaultLength)
AliasDash == <<"x", "-", "1">>
AliasShort == <<"a", "b">>
AliasBang == <<"a", "!", "c">>
AliasBlank == <<" ">>


\* the bytes the random source yields
GenBytes == {0, 1}

TotalRetries == maxRetries + Level1Retries + Level2Retries


StartTime == 1

StoredIds == {urls[i].id : i \in 1..Len(urls)}
StoredCodes == {urls[i].shortCode : i \in 1..Len(urls)}
     \cup {urls[i].customAlias[1] : i \in {j \in 1..Len(urls) : urls[j].customAlias # Undefined}}

\* the instants the clock may move on to: the due time of a pending create
\* timer, and the instants around the expiry and the end of the grace period
\* of a stored record
TimerInstants == {form[c].pending.due : c \in {d \in Callers : form[d].pending # NoPending}}

GraceInstants ==
    {urls[i].expiresAt + gracePeriod : i \in {j \in 1..Len(urls) : urls[j].expiresAt # Null}}

Init ==
    /\ urls = <<>>
    /\ rate = <<>>
    /\ now = StartTime
    /\ nextId = 0
    /\ form = [c \in Callers |-> FreshForm]
    /\ calls = [c \in Callers |-> NoCall]
    /\ last = [op |-> "init"]

\* a random source that repeats the byte b
Tape(b) == [k \in 1..TotalRetries |-> b]

\* ShortenForm of the callers in cs: the URLs they type, the alias choices
\* and expirations they submit, the random sources of the generator, and
\* the number of ids the run may hand out
FormNext(cs, urlsTyped, aliasChoices, expirations, tapes, maxIds) ==
    \/ \E c \in cs, value \in urlsTyped : HandleUrlChange(c, value)
    \/ \E c \in cs, a \in aliasChoices, e \in expirations, random \in tapes :
          /\ nextId < maxIds
          /\ HandleSubmit(c, a[2], a[1], e, Undefined, random)
    \/ \E c \in cs : CreateTimer(c, WritesOk)
    \/ \E c \in cs : HandleUseDuplicate(c)
    \/ \E c \in cs : HandleReset(c)

\* UrlList and App: visits, deletions and sweeps of the stored records
ListNext ==
    \/ \E code \in StoredCodes \cup {AliasDash} :
          /\ \A i \in 1..Len(urls) : urls[i].clicks < MaxClicks
          /\ HandleHashRoute(code, WritesOk)
    \/ \E id \in StoredIds : HandleDelete(id, WritesOk)
    \/ \E ids \in SUBSET StoredIds : HandleBulkDelete(ids, WritesOk)
    \/ HandleCleanupExpired(WritesOk)

(***************************************************************************)
(* SpecSeq: one caller, whose operations never overlap (the submit button  *)
(* is disabled while its create timer is pending)                          *)
(***************************************************************************)
NextSeq ==
    \/ FormNext({1}, {UrlPlain},
                {<<FALSE, <<>>>>, <<TRUE, AliasGen>>, <<TRUE, AliasBlank>>,
                 <<TRUE, AliasShort>>},
                {"1h"}, {Tape(0)}, MaxRecords)
    \/ ListNext
    \/ \E t \in TimerInstants \cup GraceInstants : Tick(t)

SpecSeq == Init /\ [][NextSeq]_vars

(***************************************************************************)
(* Spec: two callers (two tabs of the app) sharing localStorage            *)
(***************************************************************************)
Next ==
    \/ FormNext(Callers, {UrlUpper, UrlPlain},
                {<<FALSE, <<>>>>, <<TRUE, AliasGen>>, <<TRUE, AliasShort>>},
                {"never"}, {Tape(0)}, MaxRecords)
    \/ \E id \in StoredIds : HandleDelete(id, WritesOk)
    \/ \E t \in TimerInstants : Tick(t)

Spec == Init /\ [][Next]_vars

(***************************************************************************)
(* SpecGen: generateUniqueShortCode on random sources over GenBytes,       *)
(* against stores that hold any of the codes the generator can return      *)
(* (each stored by a create that asked for it as its alias)                *)
(***************************************************************************)
GenCodes ==
    {generateShortCode(length, Rep(b, length), 0) :
        length \in {DefaultLength, Level1Length, Level2Length}, b \in GenBytes}

\* the record a create of UrlPlain with alias `code` stores
AliasRecord(id, code, t) ==
    NewUrl([finalUrl |-> UrlPlain, normalized |-> normalizeUrl(UrlPlain),
            useCustomAlias |-> TRUE, customAlias |-> code, expiration |-> "never",
            password |-> Undefined, duplicate |-> NoRecord, due |-> t,
            shortCode |-> code], id, t)

\* the codes of a set in the order the generator's lengths and bytes give
RECURSIVE StoreOf(_, _)
StoreOf(codes, id) ==
    IF codes = {} THEN <<>>
    ELSE LET code == CHOOSE x \in codes :
                        \A y \in codes : Len(x) < Len(y) \/ (Len(x) = Len(y) /\
                            (x = y \/ x[1] = BASE62_CHARS[1]))
         IN StoreOf(codes \ {code}, id - 1)
            \o <<AliasRecord(id, code, StartTime + id * CreateDelay)>>

InitGen ==
    /\ urls \in {StoreOf(codes, Cardinality(codes)) : codes \in SUBSET GenCodes}
    /\ rate = <<>>
    /\ nextId = Len(urls)
    /\ now = StartTime + (nextId + 1) * CreateDelay
    /\ form = [c \in Callers |-> FreshForm]
    /\ calls = [c \in Callers |-> NoCall]
    /\ last = [op |-> "init"]

\* random sources that yield one byte for the first n calls and the other
\* byte from then on: the first code that is free can be any of the ten
StepTapes ==
    {[k \in 1..TotalRetries |-> IF k <= n THEN b ELSE 1 - b] :
        n \in 0..TotalRetries, b \in GenBytes}

NextGen ==
    \/ \E value \in {UrlOrg, UrlPlain} : HandleUrlChange(1, value)
    \/ \E random \in StepTapes :
          HandleSubmit(1, <<>>, FALSE, "never", Undefined, random)

SpecGen == InitGen /\ [][NextGen]_vars

(***************************************************************************)
(* SpecRateSeq: one caller creating records for one URL as fast as the     *)
(* form lets it (every create after the first is forced over the reported  *)
(* duplicate), through a full rate-limit window and out of it              *)
(***************************************************************************)
\* the random source of the submit of caller c: bytes no earlier submit drew
FreshTape(c) == Tape(2 * nextId + c)

\* the instants at which a window with at most MaxFreeSlots free slots loses
\* its oldest timestamp, and the millisecond before
WindowInstants ==
    LET recent == Recent(rate, now)
    IN IF Len(recent) < RATE_LIMIT_MAX - MaxFreeSlots THEN {}
       ELSE {Oldest(recent) + RATE_LIMIT_WINDOW + d : d \in {-1, 0}}

RateFormNext(cs) ==
    \/ \E c \in cs : HandleUrlChange(c, UrlPlain)
    \/ \E c \in cs :
          /\ nextId < MaxAdmitted
          /\ HandleSubmit(c, <<>>, FALSE, "never", Undefined, FreshTape(c))
    \/ \E c \in cs : CreateTimer(c, WritesOk)
    \/ \E c \in cs : HandleUseDuplicate(c)
    \/ \E c \in cs : HandleReset(c)

NextRateSeq ==
    \/ RateFormNext({1})
    \/ \E t \in TimerInstants \cup WindowInstants : Tick(t)

SpecRateSeq == Init /\ [][NextRateSeq]_vars

(***************************************************************************)
(* SpecRate: two callers (two tabs) sharing the store and the rate-limit   *)
(* window, started where one caller has created Warmup records in a row    *)
(***************************************************************************)
Warmup == RATE_LIMIT_MAX - 2

\* the instant the n-th create of such a run happens at
WarmupTime(n) == StartTime + n * CreateDelay

\* the record the n-th create of such a run stores: the first is for a new
\* URL, every later one is forced over the duplicate reported (the newest
\* stored record)
WarmupRecord(n) ==
    NewUrl([finalUrl |-> UrlPlain, normalized |-> normalizeUrl(UrlPlain),
            useCustomAlias |-> FALSE, customAlias |-> <<>>, expiration |-> "never",
            password |-> Undefined, duplicate |-> n - 1, due |-> WarmupTime(n),
            shortCode |-> generateShortCode(DefaultLength,
                                            Rep(2 * (n - 1) + 1, DefaultLength), 0)],
           n, WarmupTime(n))

InitRate ==
    /\ urls = [i \in 1..Warmup |-> WarmupRecord(Warmup + 1 - i)]
    /\ rate = [i \in 1..Warmup |-> WarmupTime(i)]
    /\ now = WarmupTime(Warmup)
    /\ nextId = Warmup
    /\ form = [c \in Callers |-> FreshForm]
    /\ calls = [c \in Callers |-> NoCall]
    /\ last = [op |-> "init"]

NextRate ==
    \/ RateFormNext(Callers)
    \/ \E t \in TimerInstants : Tick(t)

SpecRate == InitRate /\ [][NextRate]_vars

(***************************************************************************)
(* SpecSweep: one caller creating records that expire in an hour or never, *)
(* and sweeps at the instants around their expiry and around the end of    *)
(* their grace period                                                      *)
(***************************************************************************)
SweepInstants ==
    {urls[i].expiresAt + p + d :
        i \in {j \in 1..Len(urls) : urls[j].expiresAt # Null},
        p \in {0, gracePeriod}, d \in {-1, 0, 1}}

NextSweep ==
    \/ FormNext({1}, {UrlPlain, UrlOrg}, {<<FALSE, <<>>>>}, {"never", "1h"},
                {Tape(0)}, MaxRecords)
    \/ HandleCleanupExpired(WritesOk)
    \/ \E t \in TimerInstants \cup SweepInstants : Tick(t)

SpecSweep == Init /\ [][NextSweep]_vars

(***************************************************************************)
(* SpecPure: isExpired applied to null and to every timestamp around the   *)
(* clock, at every instant up to MaxTime                                   *)
(***************************************************************************)
\* a call isExpired(expiresAt)
IsExpiredCall(expiresAt) ==
    /\ last' = [op |-> "isExpired", expiresAt |-> expiresAt,
                result |-> isExpired(expiresAt, now)]
    /\ UNCHANGED <<urls, rate, now, nextId, form, calls>>

InitPure ==
    /\ urls = <<>>
    /\ rate = <<>>
    /\ now \in StartTime..MaxTime
    /\ nextId = 0
    /\ form = [c \in Callers |-> FreshForm]
    /\ calls = [c \in Callers |-> NoCall]
    /\ last = [op |-> "init"]

NextPure ==
    \/ \E expiresAt \in {Null} \cup 0..(MaxTime + 1) : IsExpiredCall(expiresAt)
    \/ \E t \in StartTime..MaxTime : Tick(t)

SpecPure == InitPure /\ [][NextPure]_vars

(***************************************************************************)
(* SpecTrim: sweeps and visits of a store whose newest record has been     *)
(* visited about HistoryCap times and whose other records either never or  *)
(* HistoryCap + MaxExtra times (once a millisecond, after the last record  *)
(* was created); the oldest record may expire                              *)
(***************************************************************************)
\* the n-th record of such a store after `visits` visits, the first of them
\* one millisecond after the instant t0
VisitedRecord(n, expiration, visits, t0) ==
    [NewUrl([finalUrl |-> UrlPlain, normalized |-> normalizeUrl(UrlPlain),
             useCustomAlias |-> FALSE, customAlias |-> <<>>,
             expiration |-> expiration, password |-> Undefined,
             duplicate |-> n - 1, due |-> WarmupTime(n),
             shortCode |-> generateShortCode(DefaultLength,
                                             Rep(2 * (n - 1) + 1, DefaultLength), 0)],
            n, WarmupTime(n))
     EXCEPT !.clicks = visits, !.clickHistory = [k \in 1..visits |-> t0 + k]]

\* the numbers of visits around the cap
VisitCounts == {0} \cup {HistoryCap + d : d \in -1..MaxExtra}

InitTrim ==
    /\ \E v \in VisitCounts, w \in {0, HistoryCap + MaxExtra}, e \in {"never", "1h"} :
          urls = [i \in 1..MaxRecords |->
                    VisitedRecord(MaxRecords + 1 - i,
                                  IF i = MaxRecords THEN e ELSE "never",
                                  IF i = 1 THEN v ELSE w, WarmupTime(MaxRecords))]
    /\ rate = [i \in 1..MaxRecords |-> WarmupTime(i)]
    /\ now = WarmupTime(MaxRecords) + HistoryCap + MaxExtra
    /\ nextId = MaxRecords
    /\ form = [c \in Callers |-> FreshForm]
    /\ calls = [c \in Callers |-> NoCall]
    /\ last = [op |-> "init"]

NextTrim ==
    \/ \E u \in Elems(urls) :
          /\ u.clicks < HistoryCap + MaxExtra
          /\ u.clicks >= HistoryCap - 1
          /\ HandleHashRoute(u.shortCode, WritesOk)
    \/ HandleCleanupExpired(WritesOk)
    \/ \E t \in GraceInstants : Tick(t)

SpecTrim == InitTrim /\ [][NextTrim]_vars

(***************************************************************************)
(* SpecVisit: one caller creating records with or without an alias, an     *)
(* expiry and a password, and resolving, clicking, deleting and sweeping   *)
(* them around the instants they expire                                    *)
(***************************************************************************)
\* the password "pw" typed into the form
Secret == Some("pw")

\* the instant a stored record expires at, and the millisecond after
ExpiryInstants ==
    {urls[i].expiresAt + d :
        i \in {j \in 1..Len(urls) : urls[j].expiresAt # Null}, d \in {0, 1}}

\* the requests made: (useCustomAlias, customAlias, expiration, password)
VisitRequests ==
    {<<FALSE, <<>>, "never", Secret>>,
     <<TRUE, AliasDash, "1h", Undefined>>}

\* the clicks the stored records have counted, all together
RECURSIVE TotalClicks(_)
TotalClicks(stored) ==
    IF stored = <<>> THEN 0 ELSE Head(stored).clicks + TotalClicks(Tail(stored))

\* the records are created in the first seconds of the run, one create delay
\* apart at the closest; they are visited, deleted and swept from then on
NextVisit ==
    \/ HandleUrlChange(1, UrlPlain)
    \/ \E r \in VisitRequests :
          /\ nextId < MaxRecords
          /\ now < WarmupTime(MaxRecords)
          /\ HandleSubmit(1, r[2], r[1], r[3], r[4], FreshTape(1))
    \/ CreateTimer(1, WritesOk)
    \/ HandleUseDuplicate(1)
    \/ HandleReset(1)
    \/ \E code \in StoredCodes \cup {AliasBang} :
          /\ HandleHashRoute(code, WritesOk)
          /\ TotalClicks(urls') <= MaxClicks
    \/ \E id \in StoredIds :
          /\ HandleClick(id, WritesOk)
          /\ TotalClicks(urls') <= MaxClicks
    \/ \E id \in StoredIds : HandleDelete(id, WritesOk)
    \/ HandleCleanupExpired(WritesOk)
    \/ \E t \in TimerInstants \cup ExpiryInstants \cup GraceInstants : Tick(t)

SpecVisit == Init /\ [][NextVisit]_vars


(***************************************************************************)
(* SpecDelete: one caller creating records and deleting them, one by one   *)
(* and in bulk, by ids that are stored, that were deleted before and that  *)
(* never were stored                                                       *)
(***************************************************************************)
\* the ids the run hands out, stored or not, and one it never hands out
KnownIds == 1..(MaxRecords + 1)

NextDelete ==
    \/ HandleUrlChange(1, UrlPlain)
    \/ \E r \in VisitRequests :
          /\ nextId < MaxRecords
          /\ HandleSubmit(1, r[2], r[1], r[3], r[4], FreshTape(1))
    \/ CreateTimer(1, WritesOk)
    \/ HandleUseDuplicate(1)
    \/ HandleReset(1)
    \/ \E id \in KnownIds : HandleDelete(id, WritesOk)
    \/ \E ids \in {S \in SUBSET KnownIds : Cardinality(S) = 2} :
          HandleBulkDelete(ids, WritesOk)
    \/ \E t \in TimerInstants : Tick(t)

SpecDelete == Init /\ [][NextDelete]_vars


(***************************************************************************)
(* SpecTabs: two tabs of the app creating records under the same alias,    *)
(* and resolving and deleting what is stored                               *)
(***************************************************************************)
NextTabs ==
    \/ FormNext(Callers, {UrlPlain}, {<<TRUE, AliasGen>>}, {"never"}, {Tape(0)},
                MaxRecords)
    \/ \E code \in StoredCodes \cup {AliasDash} :
          /\ HandleHashRoute(code, WritesOk)
          /\ TotalClicks(urls') <= MaxClicks
    \/ \E id \in StoredIds : HandleDelete(id, WritesOk)
    \/ \E t \in TimerInstants : Tick(t)

SpecTabs == Init /\ [][NextTabs]_vars


(***************************************************************************)
(* SpecStore: one caller creating, resolving, deleting and sweeping        *)
(* records while localStorage.setItem may throw                            *)
(***************************************************************************)
\* the outcomes of the successive setItem calls of one store call: up to
\* MaxWrites calls, all but the last failing for quota (saveUrls writes again
\* only after a QuotaExceededError)
WriteTapes ==
    {[k \in 1..n |-> IF k < n THEN "quota" ELSE final] :
        n \in 1..MaxWrites, final \in {"ok", "quota", "error"}}

NextStore ==
    \/ HandleUrlChange(1, UrlPlain)
    \/ \E e \in {"never", "1h"} :
          /\ nextId < MaxRecords
          /\ HandleSubmit(1, <<>>, FALSE, e, Undefined, FreshTape(1))
    \/ \E writes \in WriteTapes : CreateTimer(1, writes)
    \/ HandleUseDuplicate(1)
    \/ HandleReset(1)
    \/ \E code \in StoredCodes, writes \in WriteTapes :
          /\ HandleHashRoute(code, writes)
          /\ TotalClicks(urls') <= MaxClicks
    \/ \E id \in StoredIds, writes \in WriteTapes : HandleDelete(id, writes)
    \/ \E writes \in WriteTapes : HandleBulkDelete(StoredIds, writes)
    \/ \E writes \in WriteTapes : HandleCleanupExpired(writes)
    \/ \E t \in TimerInstants \cup GraceInstants : Tick(t)

SpecStore == Init /\ [][NextStore]_vars


(***************************************************************************)
(* SpecRace: two tabs in different processes; the visits and sweeps of     *)
(* either tab are split where they read and where they write the store,    *)
(* and creates, deletes and visits of the other tab fall in between        *)
(***************************************************************************)
\* the form and the list are those of tab 1, whose handlers run one at a time
\* and to completion: none of them starts while tab 1 is inside a store call
NextRace ==
    \/ /\ calls[1] = NoCall
       /\ \/ HandleUrlChange(1, UrlPlain)
          \/ \E e \in {"never", "1h"} :
                /\ nextId < MaxRecords
                /\ HandleSubmit(1, <<>>, FALSE, e, Undefined, FreshTape(1))
          \/ CreateTimer(1, WritesOk)
          \/ HandleUseDuplicate(1)
          \/ HandleReset(1)
          \/ \E id \in StoredIds : HandleDelete(id, WritesOk)
    \/ \E c \in Callers, code \in StoredCodes :
          /\ TotalClicks(urls) + Cardinality({d \in Callers : calls[d].op = "visit"})
                <= MaxClicks
          /\ BeginVisit(c, code)
    \/ \E c \in Callers : BeginCleanup(c)
    \/ \E c \in Callers : EndCall(c)
    \/ \E t \in TimerInstants \cup GraceInstants :
          /\ \A c \in Callers : calls[c] = NoCall
          /\ Tick(t)

SpecRace == Init /\ [][NextRace]_vars


(***************************************************************************)
(* SpecUrl: normalizeUrl applied, once and twice, to URLs typed in either  *)
(* case, with and without a port, a fragment, a query and slashes at the   *)
(* end, and to pairs of URLs for the same resource                         *)
(***************************************************************************)
\* query keys and values are the codes of their characters: "a", "b", "1",
\* "2"; a value v followed by "/" is v * 256 + 47
KeyA == 97
KeyB == 98
Val1 == 49
Val2 == 50

\* the path "/a" followed by n more slashes
SlashPath(n) == <<"a">> \o Rep("", n)

\* the URLs typed; the port "x" is one new URL() throws on; the queries are
\* none, "?a=1", "?b=2&a=1", "?a=1&b=2", "?a=2&a=1"
UrlInputs ==
    {[scheme |-> s, upper |-> up, host |-> <<"example", "com">>, port |-> p,
      path |-> pa, query |-> q, hash |-> f] :
        s \in {"http", "https"}, up \in BOOLEAN, p \in {"", "80", "443", "8080", "x"},
        pa \in {<<>>, <<"">>} \cup {SlashPath(n) : n \in 0..MaxSlashes},
        q \in {<<>>, <<<<KeyA, Val1>>>>, <<<<KeyB, Val2>>, <<KeyA, Val1>>>>,
               <<<<KeyA, Val1>>, <<KeyB, Val2>>>>, <<<<KeyA, Val2>>, <<KeyA, Val1>>>>},
        f \in {"", "frag"}}

\* the URLs that differ from u only in the case of scheme and host, an
\* explicit default port, a fragment, the order of the query parameters and
\* one trailing slash, at the end of the path or at the end of the URL.  "/"
\* typed at the very end of a URL with a query and no fragment is taken by
\* the parser for the last character of the last query value.
Variants(u) ==
    LET Orders(q) == IF Len(q) = 2 THEN {q, <<q[2], q[1]>>} ELSE {q}
        EndSlash(w) == [w EXCEPT !.query[Len(w.query)][2] = @ * 256 + 47]
        cased == {[u EXCEPT !.upper = up, !.port = p, !.hash = f, !.query = q,
                            !.path = pa] :
                     up \in BOOLEAN,
                     p \in {"", IF u.scheme = "http" THEN "80" ELSE "443"},
                     f \in {"", "frag"}, q \in Orders(u.query),
                     pa \in {u.path, Append(u.path, "")}}
    IN cased \cup {EndSlash(v) :
                      v \in {x \in cased : /\ x.hash = "" /\ x.query # <<>>
                                            /\ x.path = u.path}}

\* normalizeUrl(url), and normalizeUrl of what it returned
NormalizeTwice(u) ==
    /\ last' = [op |-> "normalizeTwice", url |-> u, once |-> normalizeUrl(u),
                twice |-> normalizeUrl(normalizeUrl(u))]
    /\ UNCHANGED <<urls, rate, now, nextId, form, calls>>

\* normalizeUrl of two URLs
NormalizePair(u, v) ==
    /\ last' = [op |-> "normalizePair", url |-> u, other |-> v,
                normalized |-> normalizeUrl(u), otherNormalized |-> normalizeUrl(v)]
    /\ UNCHANGED <<urls, rate, now, nextId, form, calls>>

\* each run makes one call
\* each run makes one call; the pairs are of a URL in lower case, with no
\* port, no fragment and no slash at the end of its path, and a variant of it
NextUrl ==
    \/ \E u \in UrlInputs : last.op = "init" /\ NormalizeTwice(u)
    \/ \E u \in {w \in UrlInputs : /\ ~w.upper /\ w.port = "" /\ w.hash = ""
                                   /\ w.path = SlashPath(0)} :
          \E v \in Variants(u) : last.op = "init" /\ NormalizePair(u, v)

SpecUrl == Init /\ [][NextUrl]_vars


(***************************************************************************)
(* SpecAlias: isValidAlias applied to aliases of every length around the   *)
(* two limits, of characters inside the class and with one outside it      *)
(***************************************************************************)
\* the lengths: none, around the shortest and around the longest allowed
AliasLengths ==
    {0, MinAliasLen - 1, MinAliasLen, MinAliasLen + 1, MaxAliasLen - 1, MaxAliasLen}
    \cup {MaxAliasLen + d : d \in 1..MaxOver}

\* n times a character ch of each kind the class names, and the same with
\* the character at place k replaced by another, in or out of the class
AliasInputs ==
    {Rep(ch, n) : ch \in {"a", "z", "A", "Z", "0", "9", "_", "-"}, n \in AliasLengths}
    \cup UNION {{[i \in 1..n |-> IF i = k THEN other ELSE ch] :
                    ch \in {"a", "0", "-"},
                    other \in {"!", " ", ".", "/", "+", "@", "_", "Z"},
                    k \in {1, n}} :
                 n \in AliasLengths \ {0}}

\* a call isValidAlias(alias)
IsValidAliasCall(alias) ==
    /\ last' = [op |-> "isValidAlias", alias |-> alias, result |-> isValidAlias(alias)]
    /\ UNCHANGED <<urls, rate, now, nextId, form, calls>>

\* each run makes one call
NextAlias ==
    \E alias \in AliasInputs : last.op = "init" /\ IsValidAliasCall(alias)

SpecAlias == Init /\ [][NextAlias]_vars


(***************************************************************************)
(* SpecValid: one caller submitting URLs that pass and URLs that fail      *)
(* isValidUrl                                                              *)
(***************************************************************************)
\* the string of n letters "a"
RECURSIVE Letters(_)
Letters(n) ==
    IF n = 0 THEN ""
    ELSE IF n % 2 = 1 THEN "a" \o Letters(n - 1)
    ELSE LET half == Letters(n \div 2) IN half \o half

\* "http://example.com/aaa...a" of n characters
LongUrl(n) ==
    [UrlPlain EXCEPT !.path = <<Letters(n - UrlLength(UrlPlain) + 1)>>]

\* the URLs typed; the last six are "http://localhost/a", "http://intranet/a",
\* "ftp://example.com/a", "http://8.8.8.8/a", "http://example.com/malware"
\* and "http://example.com:x/a"
ValidityUrls ==
    {EmptyUrl, UrlPlain, UrlUpper, UrlOrg, UrlScript,
     LongUrl(MaxUrlLength), LongUrl(MaxUrlLength + 1),
     [UrlPlain EXCEPT !.host = <<"localhost">>],
     [UrlPlain EXCEPT !.host = <<"intranet">>],
     [UrlPlain EXCEPT !.scheme = "ftp"],
     [UrlPlain EXCEPT !.host = <<"8", "8", "8", "8">>],
     [UrlPlain EXCEPT !.path = <<"malware">>],
     [UrlPlain EXCEPT !.port = "x"]}

NextValid ==
    \/ FormNext({1}, ValidityUrls, {<<FALSE, <<>>>>}, {"never"}, {Tape(0)}, MaxRecords)
    \/ \E t \in TimerInstants : Tick(t)

SpecValid == Init /\ [][NextValid]_vars


(***************************************************************************)
(* SpecSoon: isExpiringSoon and isExpired applied to null, to timestamps   *)
(* around the clock and to timestamps around one and two hours ahead of it *)
(***************************************************************************)
\* the calls isExpiringSoon(expiresAt) and isExpired(expiresAt)
IsExpiringSoonCall(expiresAt) ==
    /\ last' = [op |-> "isExpiringSoon", expiresAt |-> expiresAt,
                result |-> isExpiringSoon(expiresAt, now),
                expired |-> isExpired(expiresAt, now)]
    /\ UNCHANGED <<urls, rate, now, nextId, form, calls>>

\* each run makes one call
NextSoon ==
    \E expiresAt \in {Null} \cup 0..(now + MaxAhead)
                      \cup {now + OneHour + d : d \in (0 - MaxAhead)..MaxAhead}
                      \cup {now + 2 * OneHour} :
        last.op = "init" /\ IsExpiringSoonCall(expiresAt)

SpecSoon == InitPure /\ [][NextSoon]_vars


(***************************************************************************)
(* SpecReject: one caller whose creation requests meet every rejection of  *)
(* handleSubmit: the run starts a few records short of a full rate-limit   *)
(* window, and the aliases asked for are the codes the generator draws     *)
(* from a constant random source, so that its retries can run out          *)
(***************************************************************************)
\* the code an all-zero random source gives at each length
ZeroCode(length) == generateShortCode(length, Rep(0, length), 0)

ZeroCodes == {ZeroCode(DefaultLength), ZeroCode(Level1Length), ZeroCode(Level2Length)}

\* the creates already made: the window has room for one record per code
\* length, and one more
RejectWarmup == RATE_LIMIT_MAX - (Cardinality(ZeroCodes) + 1)

InitReject ==
    /\ urls = [i \in 1..RejectWarmup |-> WarmupRecord(RejectWarmup + 1 - i)]
    /\ rate = [i \in 1..RejectWarmup |-> WarmupTime(i)]
    /\ now = WarmupTime(RejectWarmup)
    /\ nextId = RejectWarmup
    /\ form = [c \in Callers |-> FreshForm]
    /\ calls = [c \in Callers |-> NoCall]
    /\ last = [op |-> "init"]

NextReject ==
    \/ FormNext({1}, {EmptyUrl, UrlPlain, UrlScript, BaseUrl},
                {<<FALSE, <<>>>>, <<TRUE, AliasShort>>, <<TRUE, AliasDash>>} \cup
                    {<<TRUE, code>> : code \in ZeroCodes},
                {"never"}, {Tape(0)}, RATE_LIMIT_MAX + 1)
    \/ \E t \in TimerInstants : Tick(t)

SpecReject == InitReject /\ [][NextReject]_vars

(***************************************************************************)
(* SpecFrame: the stores of SpecTrim under every operation that writes the *)
(* record list: visits, sweeps that trim and remove, the creation of one   *)
(* more record, and deletions                                              *)
(***************************************************************************)
NextFrame ==
    \/ NextTrim
    \/ /\ form[1].url = EmptyUrl
       /\ HandleUrlChange(1, UrlOrg)
    \/ /\ nextId = MaxRecords
       /\ HandleSubmit(1, <<>>, FALSE, "never", Undefined, FreshTape(1))
    \/ CreateTimer(1, WritesOk)
    \/ \E id \in StoredIds : HandleDelete(id, WritesOk)
    \/ \E t \in TimerInstants : Tick(t)

SpecFrame == InitTrim /\ [][NextFrame]_vars

(***************************************************************************)
(* Properties                                                              *)
(***************************************************************************)
\* the lookup keys of a record: its shortCode and, when one is set, its
\* customAlias.  The code takes an empty customAlias for no alias (it is
\* falsy, and handleHashRoute never looks up an empty code).
Keys(u) ==
    {u.shortCode} \cup
    (IF u.customAlias # Undefined /\ u.customAlias[1] # <<>>
     THEN {u.customAlias[1]} ELSE {})

C2_OverlapKeepsCodesUnique ==
    \A i, j \in 1..Len(urls) : i # j => urls[i].shortCode # urls[j].shortCode


\* the lengths generateUniqueShortCode asks the generator for, in order
C3_Order == <<7, 7, 7, 7, 7, 9, 9, 9, 11, 11>>

\* the code the k-th call of the generator returns for the random source
C3_Attempt(random, k) == generateShortCode(C3_Order[k], Rep(random[k], C3_Order[k]), 0)

\* the calls whose code is the shortCode of no stored record
C3_Free(random) ==
    {k \in 1..Len(C3_Order) :
        \A i \in 1..Len(urls) : urls[i].shortCode # C3_Attempt(random, k)}

\* C3: generateUniqueShortCode asks for 5 codes of length 7, then 3 of length
\* 9, then 2 of length 11; it stops at and returns the first code that no
\* stored record has as shortCode, and returns null only after 10 collisions.
C3_RetryOrder ==
    (last.op = "submit" /\ last.out \in {"pending", "generationFailed"}
        /\ ~(last.useCustomAlias /\ last.alias # <<>>))
    => LET free == C3_Free(last.random)
           n == IF free = {} THEN Len(C3_Order)
                ELSE CHOOSE k \in free : \A m \in free : k <= m
       IN /\ last.calls = SubSeq(C3_Order, 1, n)
          /\ (free = {}) = (last.out = "generationFailed")
          /\ free # {} => form[last.c].pending.shortCode = C3_Attempt(last.random, n)

\* C3 witness: all ten codes collided and the submit failed
C3_Witness ==
    /\ last.op = "submit"
    /\ last.out = "generationFailed"
    /\ last.calls = C3_Order


\* the alias a submit or a create asked for: the trimmed field, when the
\* custom-alias box is ticked and the field is not blank
C4_Asked(useCustomAlias, customAlias) == useCustomAlias /\ Trim(customAlias) # <<>>

\* the values stored as shortCode or customAlias
C4_Taken == UNION {Keys(urls[i]) : i \in 1..Len(urls)}

\* C4: a creation request that asks for alias a sets no create timer when a
\* fails isValidAlias or is the shortCode or customAlias of a stored record,
\* and the form reports which; a request that reaches the allocation with a
\* valid, free alias is given a as its code without a call of the generator,
\* and the record its timer stores has shortCode = a and customAlias = a.
C4_AliasRequest ==
    /\ (last.op = "submit" /\ C4_Asked(last.useCustomAlias, last.alias))
       => LET a == last.alias
              f == form[last.c]
              rejected == f.pending = NoPending /\ ~f.isCreating
              allocating == last.out \in {"invalidAlias", "aliasTaken", "pending"}
          IN /\ ~isValidAlias(a) => rejected /\ (allocating => last.out = "invalidAlias")
             /\ (isValidAlias(a) /\ a \in C4_Taken)
                   => rejected /\ (allocating => last.out = "aliasTaken")
             /\ (isValidAlias(a) /\ a \notin C4_Taken /\ allocating)
                   => /\ last.out = "pending"
                      /\ f.pending.shortCode = a
                      /\ last.calls = <<>>
    /\ (last.op = "create"
          /\ C4_Asked(last.request.useCustomAlias, last.request.customAlias))
       => LET a == Trim(last.request.customAlias)
          IN /\ last.url.shortCode = a
             /\ last.url.customAlias = Some(a)
             /\ urls # <<>> /\ urls[1] = last.url

\* C4 witness: the alias "aaaaaaa" is stored by a create that asked for it,
\* and a later request for the same alias was rejected as taken
C4_Witness ==
    /\ last.op = "submit"
    /\ last.out = "aliasTaken"
    /\ last.alias = AliasGen
    /\ \E i \in 1..Len(urls) :
          urls[i].shortCode = AliasGen /\ urls[i].customAlias = Some(AliasGen)


\* the stored records whose normalizedUrl is the one the last submit asked for
C5_Duplicates == {i \in 1..Len(urls) : urls[i].normalizedUrl = last.normalized}

\* the last create stored a record for a URL the store already held
C5_MintedOverDuplicate ==
    /\ last.op = "create"
    /\ \E i \in 2..Len(urls) : urls[i].normalizedUrl = last.url.normalizedUrl

C6_InWindowUpTo(stamps, t) ==
    {i \in 1..Len(stamps) : stamps[i] <= t /\ InWindow(stamps[i], t)}

\* C6: with one caller, at every instant at most 10 recorded timestamps are
\* less than 60000 ms old, and no window of 60000 ms that ends now or at the
\* creation of a stored record holds more than 10 creations.
C6_WindowBound ==
    /\ Len(Recent(rate, now)) <= RATE_LIMIT_MAX
    /\ LET createdAt == [i \in 1..Len(urls) |-> urls[i].createdAt]
       IN \A t \in {now} \cup Elems(createdAt) :
             Cardinality(C6_InWindowUpTo(createdAt, t)) <= RATE_LIMIT_MAX

\* C6 witness: ten records were created in a row, and a request made in the
\* last millisecond of the window of the first found the window still full
C6_Witness ==
    /\ last.op = "submit"
    /\ last.out = "rateLimited"
    /\ Len(Recent(rate, now)) = RATE_LIMIT_MAX
    /\ now = Oldest(Recent(rate, now)) + RATE_LIMIT_WINDOW - 1


\* C7: whenever checkRateLimit reports allowed = false, nextAvailable is the
\* oldest in-window timestamp + 60000, and a check made at that instant or
\* later, with no record in between, reports allowed = true.
C7_NextAvailable ==
    (last.op = "submit" /\ ~last.check.allowed)
    => LET next == Oldest(Recent(rate, now)) + RATE_LIMIT_WINDOW
       IN /\ last.check.nextAvailable = next
          /\ \A d \in {0, 1, CreateDelay, RATE_LIMIT_WINDOW} :
                checkRateLimit(rate, next + d).allowed

\* C8: however the creation requests of the callers overlap, at most 10 of
\* the stored records were created within the 60000 ms that end now.
C8_NoOverAdmission ==
    Cardinality({i \in 1..Len(urls) : InWindow(urls[i].createdAt, now)})
        <= RATE_LIMIT_MAX


\* C9: for null and for every timestamp, 0 and the current instant included,
\* isExpired(expiresAt) is exactly (expiresAt != null && expiresAt < now).
C9_IsExpiredExact ==
    last.op = "isExpired"
    => last.result = (last.expiresAt # Null /\ last.expiresAt < now)


\* the record urls[i] is still stored after the step
C10_Stays(i) == \E j \in 1..Len(urls') : urls'[j].id = urls[i].id

C11_After(u) ==
    IF \E v \in Elems(urls') : v.id = u.id
    THEN CHOOSE v \in Elems(urls') : v.id = u.id ELSE u

\* the records a sweep leaves in the store
C11_Survivors == {u \in Elems(urls) : \E v \in Elems(urls') : v.id = u.id}

\* C11: after cleanupExpiredUrls, every surviving record whose clickHistory
\* had more than 1000 events holds exactly its last 1000, in order, with its
\* clicks (and every other field) unchanged; a record with at most 1000
\* events is as it was; trimmed counts the records so rewritten.
C11_TrimKeepsLast ==
    [][last'.op = "cleanup"
       => /\ \A u \in C11_Survivors :
                LET n == Len(u.clickHistory)
                IN IF n > HistoryCap
                   THEN /\ C11_After(u).clickHistory
                             = [k \in 1..HistoryCap |-> u.clickHistory[n - HistoryCap + k]]
                        /\ C11_After(u).clicks = u.clicks
                        /\ C11_After(u) = [u EXCEPT !.clickHistory = C11_After(u).clickHistory]
                   ELSE C11_After(u) = u
          /\ last'.trimmed
                = Cardinality({u \in C11_Survivors : Len(u.clickHistory) > HistoryCap})]_vars

\* C11 witness: a sweep rewrote a record of HistoryCap + MaxExtra events
C11_Witness ==
    /\ last.op = "cleanup"
    /\ last.trimmed >= 1
    /\ \E u \in Elems(urls) :
          /\ u.clicks = HistoryCap + MaxExtra
          /\ Len(u.clickHistory) = HistoryCap
          /\ u.clickHistory[1] = WarmupTime(MaxRecords) + MaxExtra + 1


\* C12: a sweep that directly follows a sweep, at the same clock value,
\* reports removed = 0 and trimmed = 0 and leaves the store as the first
\* sweep left it.
C12_SweepIdempotent ==
    [][(last.op = "cleanup" /\ last'.op = "cleanup" /\ now' = now)
       => /\ last'.removed = 0
          /\ last'.trimmed = 0
          /\ last'.attempts = <<>>
          /\ urls' = urls]_vars

\* C12 witness: a sweep found nothing to do in a store from which an earlier
\* sweep had removed a record and in which it had trimmed another
C12_Witness ==
    /\ last.op = "cleanup"
    /\ last.removed = 0
    /\ last.trimmed = 0
    /\ Len(urls) < MaxRecords
    /\ \E u \in Elems(urls) : Len(u.clickHistory) = HistoryCap /\ u.clicks > HistoryCap


\* C13 (as claimed): clicks equals the length of clickHistory for every
\* record in every state, except in the state right after a sweep that
\* trimmed, where the history holds 1000 events.
C13_ClicksEqualHistory ==
    \A u \in Elems(urls) :
        \/ u.clicks = Len(u.clickHistory)
        \/ /\ last.op = "cleanup"
           /\ last.trimmed > 0
           /\ Len(u.clickHistory) = HistoryCap

\* C13 (amended): clicks equals the length of clickHistory for every record
\* no sweep has trimmed; a trimmed record keeps its clicks, so from the trim
\* on its clicks exceed the length of its history, which is at least 1000
\* (exactly 1000 right after the trim).
C13_ClicksCoverHistory ==
    /\ \A u \in Elems(urls) :
          \/ u.clicks = Len(u.clickHistory)
          \/ /\ u.clicks > Len(u.clickHistory)
             /\ Len(u.clickHistory) >= HistoryCap
    /\ (last.op = "cleanup" /\ last.trimmed > 0)
       => /\ \A u \in Elems(urls) : Len(u.clickHistory) <= HistoryCap
          /\ \E u \in Elems(urls) :
                Len(u.clickHistory) = HistoryCap /\ u.clicks > HistoryCap

\* C13 witness: a record trimmed by a sweep was visited again
C13_Witness ==
    /\ last.op = "visit"
    /\ last.out = "redirecting"
    /\ \E u \in Elems(urls) :
          /\ u.id = last.id
          /\ Len(u.clickHistory) = HistoryCap + 1
          /\ u.clicks = HistoryCap + MaxExtra


C15_ExpiredNotCounted ==
    [][\A i \in 1..Len(urls) :
          (/\ last'.op \in {"visit", "click"}
           /\ last'.out # "not-found"
           /\ last'.id = urls[i].id)
          => IF urls[i].expiresAt # Null /\ urls[i].expiresAt < now
             THEN /\ last'.out = "expired"
                  /\ urls' = urls
             ELSE /\ last'.out \in {"redirecting", "opened"}
                  /\ Len(urls') = Len(urls)
                  /\ urls'[i] = [urls[i] EXCEPT !.clicks = @ + 1,
                                                !.clickHistory = Append(@, now)]
                  /\ \A k \in 1..Len(urls) : k # i => urls'[k] = urls[k]]_vars

\* C15 witness: a record visited once while live was resolved again after
\* it expired and before its grace period ran out, and was reported expired
C15_Witness ==
    /\ last.op = "visit"
    /\ last.out = "expired"
    /\ \E u \in Elems(urls) :
          /\ u.id = last.id
          /\ u.clicks = 1
          /\ Len(u.clickHistory) = 1
          /\ u.expiresAt < now
          /\ now < u.expiresAt + gracePeriod

\* C16 (as claimed): a resolve of a record created with a password is
\* counted and redirected only after the matching password was presented.
\* handleHashRoute asks for none before it counts and redirects, so a
\* counted resolve should only ever be one of a record without a password.
C16_SecretGate ==
    (last.op = "visit" /\ last.out = "redirecting")
    => \A u \in Elems(urls) : u.id = last.id => u.password = Undefined

\* the records a delete of the ids leaves: those of the store whose id is
\* none of the ids, each at the place it had among them
C18_Remaining(stored, ids, after) ==
    LET kept == {i \in 1..Len(stored) : stored[i].id \notin ids}
    IN /\ Len(after) = Cardinality(kept)
       /\ \A i \in kept : after[Cardinality({k \in kept : k <= i})] = stored[i]

C17_Matches(stored, code) ==
    {i \in 1..Len(stored) :
        stored[i].shortCode = code \/ stored[i].customAlias = Some(code)}

\* C17 (as claimed): a resolve by a code finds the one record that has it as
\* shortCode or customAlias and, the record being live, adds exactly 1 to
\* its clicks; once a record is deleted, none of its codes resolves to
\* anything (NotFound) until a create stores a record with that code again.
C17_ResolveAndDelete ==
    [][/\ last'.op = "visit"
          => LET hits == C17_Matches(urls, last'.code)
             IN IF hits = {} THEN last'.out = "not-found"
                ELSE /\ Cardinality(hits) = 1
                     /\ \A i \in hits :
                           /\ last'.id = urls[i].id
                           /\ last'.out = "redirecting"
                              => urls'[i].clicks = urls[i].clicks + 1
       /\ last'.op = "delete"
          => \A i \in 1..Len(urls) :
                urls[i].id \in last'.ids
                => \A code \in Keys(urls[i]) : C17_Matches(urls', code) = {}
       /\ \A code \in StoredCodes' :
             (C17_Matches(urls, code) = {} /\ C17_Matches(urls', code) # {})
             => last'.op = "create"]_vars

\* C19 (as claimed): a mutating store call that hands its caller a list has
\* that list persisted; no store call reports an error to its caller
\* (saveUrls returns nothing and catches what setItem throws), so a list
\* handed back must always be the stored one.
C19_PersistedOrError ==
    last.op \in {"create", "visit", "click", "delete", "bulkDelete", "cleanup"}
    => ("returned" \in DOMAIN last => last.returned = urls)

\* C20 (as claimed): a save whose write fails for quota runs one sweep and
\* then hands the list it was asked to save to setItem once more, and does
\* no more than that: one sweep, two writes, the second of the same list.
C20_OneSweepOneRetry ==
    ("sweeps" \in DOMAIN last /\ last.sweeps >= 1)
    => /\ last.sweeps = 1
       /\ Len(last.attempts) = 2
       /\ last.attempts[2] = last.attempts[1]

\* the clicks and the number of click events of the stored record with an id
C21_Counted(stored, id) ==
    LET u == CHOOSE r \in Elems(stored) : r.id = id
    IN <<u.clicks, Len(u.clickHistory)>>

\* C21 (as claimed): no increment of visits in progress at once is lost:
\* every visit that completes on a stored record leaves its clicks one
\* higher and its clickHistory one event longer than they were in the store
\* just before it completed, so n completed visits add exactly n.
C21_NoLostIncrement ==
    [][(/\ last'.op = "save"
        /\ last'.call = "visit"
        /\ last'.id \in StoredIds)
       => /\ last'.id \in StoredIds'
          /\ C21_Counted(urls', last'.id)[1] = C21_Counted(urls, last'.id)[1] + 1
          /\ C21_Counted(urls', last'.id)[2] = C21_Counted(urls, last'.id)[2] + 1]_vars

\* C22 (as claimed): the write that ends a sweep loses nothing another tab
\* committed while the sweep was in progress: every stored record the sweep
\* is not to remove (never expiring, or expired for less than the grace
\* period) is still stored with no fewer clicks and click events, new
\* records included, and no record that is not stored (deleted meanwhile)
\* is stored again.
C22_SweepKeepsUpdates ==
    [][(last'.op = "save" /\ last'.call = "cleanup")
       => /\ \A u \in Elems(urls) :
                (u.expiresAt = Null \/ now - u.expiresAt < gracePeriod)
                => \E v \in Elems(urls') :
                      /\ v.id = u.id
                      /\ v.clicks >= u.clicks
                      /\ Len(v.clickHistory) >= Len(u.clickHistory)
          /\ \A v \in Elems(urls') : v.id \in StoredIds]_vars

\* C23 (as claimed): normalizeUrl is idempotent: for every URL, normalizing
\* what normalizeUrl returned returns the same again.
C23_NormalizeIdempotent ==
    last.op = "normalizeTwice" => last.twice = last.once

\* C24 (as claimed): two URLs that differ only in the case of scheme and
\* host, an explicit default port, a fragment, the order of their query
\* parameters or a trailing slash normalize to the same string.
C24_SameResourceSameNormal ==
    last.op = "normalizePair" => last.normalized = last.otherNormalized

\* the characters a to z, A to Z, 0 to 9, "_" and "-"
C25_Class ==
    {"a","b","c","d","e","f","g","h","i","j","k","l","m","n","o","p","q","r",
     "s","t","u","v","w","x","y","z","A","B","C","D","E","F","G","H","I","J",
     "K","L","M","N","O","P","Q","R","S","T","U","V","W","X","Y","Z","0","1",
     "2","3","4","5","6","7","8","9","_","-"}

\* C25: isValidAlias(a) is true exactly when a is 3 to 30 characters long
\* and each of its characters is a letter, a digit, "_" or "-".
C25_AliasExact ==
    last.op = "isValidAlias"
    => (last.result <=> /\ Len(last.alias) >= 3
                        /\ Len(last.alias) <= 30
                        /\ \A i \in 1..Len(last.alias) : last.alias[i] \in C25_Class)

\* C25 witness: an alias of 31 characters of the class was rejected
C25_Witness ==
    /\ last.op = "isValidAlias"
    /\ Len(last.alias) = 31
    /\ \A i \in 1..Len(last.alias) : last.alias[i] \in C25_Class
    /\ ~last.result

\* C26: every stored record's originalUrl passes isValidUrl: it is at most
\* 2000 characters long, its scheme is http, https or ftp, and its host name
\* has a dot or is localhost; a request whose URL (with the protocol added)
\* fails isValidUrl is rejected by the submit itself, no create pending.
C26_OnlyValidUrls ==
    /\ \A r \in Elems(urls) :
          /\ isValidUrl(r.originalUrl)
          /\ UrlLength(r.originalUrl) <= 2000
          /\ r.originalUrl.scheme \in {"http", "https", "ftp"}
          /\ Len(r.originalUrl.host) >= 2 \/ r.originalUrl.host = <<"localhost">>
    /\ (last.op = "submit" /\ ~isValidUrl(ensureProtocol(form[last.c].url)))
       => /\ last.out \in {"rateLimited", "emptyUrl", "invalidUrl"}
          /\ form[last.c].pending = NoPending
          /\ ~form[last.c].isCreating

\* C26 witness: a record for the URL of exactly 2000 characters is stored,
\* and the URL of 2001 characters was just rejected
C26_Witness ==
    /\ last.op = "submit"
    /\ last.out = "invalidUrl"
    /\ UrlLength(form[last.c].url) = 2001
    /\ \E r \in Elems(urls) : UrlLength(r.originalUrl) = 2000

\* C27: isExpiringSoon(expiresAt) is true exactly when expiresAt is not
\* null and lies after the clock by less than 3 600 000 ms; it is false for
\* null and for two hours ahead, and never true together with isExpired.
C27_ExpiringSoonExact ==
    last.op = "isExpiringSoon"
    => /\ last.result <=> /\ last.expiresAt # Null
                          /\ 0 < last.expiresAt - now
                          /\ last.expiresAt - now < 3600000
       /\ last.expiresAt = Null => ~last.result
       /\ last.expiresAt = now + 2 * 3600000 => ~last.result
       /\ ~(last.result /\ last.expired)

\* C27 witness: a timestamp one millisecond short of an hour ahead was
\* reported as expiring soon
C27_Witness ==
    /\ last.op = "isExpiringSoon"
    /\ last.expiresAt = now + 3600000 - 1
    /\ last.result
    /\ ~last.expired

\* the URL the last submit was for is one handleSubmit's validation accepts
C28_UrlAccepted ==
    LET finalUrl == ensureProtocol(form[last.c].url)
    IN /\ form[last.c].url # EmptyUrl
       /\ isValidUrl(finalUrl)
       /\ ~isSelfReferencing(finalUrl)

\* the rate-limit window is full at the instant of the last submit
C28_WindowFull == Len(Recent(rate, now)) >= RATE_LIMIT_MAX

\* an unforced submit for a URL the store holds
C28_AsksStored ==
    /\ last.op = "submit"
    /\ ~last.hadDuplicate
    /\ \E i \in 1..Len(urls) : urls[i].normalizedUrl = last.normalized

C29_Rejections ==
    {"rateLimited", "emptyUrl", "invalidUrl", "selfReference", "duplicate",
     "invalidAlias", "aliasTaken", "generationFailed"}

\* C29: a creation request that is rejected or short-circuited (rate limited,
\* empty, invalid or self-referencing URL, duplicate reported, invalid alias,
\* alias taken, code generation exhausted) leaves the record store and the
\* rate-limit window unchanged and sets no timer that would change them; only
\* the timer callback of an accepted request changes them, adding exactly one
\* record and exactly one timestamp.
C29_RejectionChangesNothing ==
    [][/\ last'.op = "submit"
          => /\ urls' = urls
             /\ rate' = rate
             /\ nextId' = nextId
             /\ last'.out \in C29_Rejections \cup {"pending"}
             /\ last'.out \in C29_Rejections
                   => form'[last'.c].pending = NoPending /\ ~form'[last'.c].isCreating
       /\ last'.op # "create" => urls' = urls /\ rate' = rate
       /\ last'.op = "create"
          => /\ Len(urls') = Len(urls) + 1
             /\ Len(rate') = Len(Recent(rate, now')) + 1
             /\ rate' = Append(Recent(rate, now'), now')
             /\ form[last'.c].pending # NoPending]_vars

\* C29 witness: with the window one short of full and every code of the
\* random source stored, a request ran out of generation attempts, and the
\* store and the window still hold one entry per record created
C29_Witness ==
    /\ last.op = "submit"
    /\ last.out = "generationFailed"
    /\ Len(urls) = RATE_LIMIT_MAX - 1
    /\ Len(rate) = Len(urls)
    /\ form[last.c].pending = NoPending

\* the fields of a record that are fixed when it is created
C30_Fixed(u) ==
    <<u.id, u.shortCode, u.customAlias, u.originalUrl, u.normalizedUrl,
      u.createdAt, u.expiresAt>>

\* the record u but for its clickHistory
C30_ButHistory(u) == [u EXCEPT !.clickHistory = <<>>]

\* the record u but for its clicks and clickHistory
C30_ButClicks(u) == [u EXCEPT !.clicks = 0, !.clickHistory = <<>>]

\* C30: a stored record's id, shortCode, customAlias, originalUrl,
\* normalizedUrl, createdAt and expiresAt never change while it is stored;
\* a counted visit changes only clicks and clickHistory of the record with
\* the visited id, a sweep changes only the clickHistory of the records it
\* trims, and a creation or deletion changes no field of any other record.
C30_Frame ==
    [][\A i \in 1..Len(urls), j \in 1..Len(urls') :
          urls[i].id = urls'[j].id =>
             /\ C30_Fixed(urls'[j]) = C30_Fixed(urls[i])
             /\ IF last'.op = "visit"
                THEN /\ C30_ButClicks(urls'[j]) = C30_ButClicks(urls[i])
                     /\ urls'[j] # urls[i]
                           => last'.out = "redirecting" /\ last'.id = urls[i].id
                ELSE IF last'.op = "cleanup"
                THEN /\ C30_ButHistory(urls'[j]) = C30_ButHistory(urls[i])
                     /\ urls'[j] # urls[i]
                           => /\ Len(urls[i].clickHistory) > HistoryCap
                              /\ Len(urls'[j].clickHistory) = HistoryCap
                ELSE urls'[j] = urls[i]]_vars

\* C30 witness: a record that has been visited and trimmed and has seen
\* another record created, one removed by a sweep or deleted, is stored with
\* the fields it was created with
C30_Witness ==
    /\ last.op \in {"delete", "cleanup"}
    /\ nextId = MaxRecords + 1
    /\ \E i \in 1..Len(urls) :
          /\ urls[i].id = MaxRecords
          /\ urls[i].clicks > HistoryCap
          /\ Len(urls[i].clickHistory) = HistoryCap
          /\ urls[i].createdAt = WarmupTime(MaxRecords)
          /\ urls[i].shortCode = VisitedRecord(MaxRecords, "never", 0, 0).shortCode
    /\ Len(urls) <= MaxRecords

\* the state SpecRate starts in, but for the second form and last: one
\* caller's run reaches it
WarmupReachable ==
    /\ urls = [i \in 1..Warmup |-> WarmupRecord(Warmup + 1 - i)]
    /\ rate = [i \in 1..Warmup |-> WarmupTime(i)]
    /\ now = WarmupTime(Warmup)
    /\ nextId = Warmup
    /\ form[1] = FreshForm

====
